---- MODULE Spec2Model ----
(***************************************************************************)
(* go-rest: a service struct whose tagged fields declare routes is turned  *)
(* by New into a Rest router; Rest.ServeHTTP finds the node of a request,  *)
(* converts path arguments, decodes the body and calls the handler.        *)
(* RestExample (the package's example service) keeps a post map and a      *)
(* watch map of channels; its three handlers run concurrently, one         *)
(* goroutine per request.                                                  *)
(*                                                                         *)
(* Two specifications share the variables:                                 *)
(*   Spec         New on a bounded family of service structs, then         *)
(*                requests served one after the other with handlers that   *)
(*                return or panic (ServeHTTP touches no shared mutable     *)
(*                router state, so its own steps need no interleaving);    *)
(*   SpecExample  the router of RestExample with MaxReqs concurrent        *)
(*                requests, each handler stepping at every access to the   *)
(*                shared maps and channels.                                *)
(***************************************************************************)
EXTENDS Integers, Sequences, FiniteSets, TLC

VARIABLES
  built,    \* has New been called
  rest,     \* what New returned: [ok, err, prefix, handlers]
  svc,      \* the service value New was given
  served,   \* Spec: number of requests served so far
  pc,       \* per request slot: where its goroutine stands
  req,      \* per request slot: the request (method, path, body, mime)
  disp,     \* per request slot: what ServeHTTP computed before the handler
  resp,     \* per request slot: the response writer's state
  post,     \* RestExample.post
  watch,    \* RestExample.watch: identifier -> channel (0: no entry)
  chan,     \* per channel (named by the slot that made it): [made, closed, buf]
  ch,       \* per slot: the channel a handler holds in its variable c (0: none)
  got,      \* per slot: the message a streaming handler holds in `post`
  armed,    \* per slot: SetDeadline was called since the last Write
  conn,     \* per slot: the Write calls made on the streaming connection
  sends,    \* history: every select-send of HandleCreateHello
  stores,   \* history: the slots that stored into r.post, in order
  panics,   \* history: the number of panics ServeHTTP has recovered
  epoch,    \* history, per slot: what had happened when the request arrived
  crashed,  \* the runtime has thrown on an unsynchronised map access
  instance, \* the context held by the Service field of s.instance (0: none)
  seen      \* per slot: the context the handler's receiver carries (0: none)

vars == <<built, rest, svc, served, pc, req, disp, resp, post, watch, chan,
          ch, got, armed, conn, sends, stores, panics, epoch, crashed,
          instance, seen>>

(***************************************************************************)
(* Bounds                                                                  *)
(***************************************************************************)
MaxFields == 4
MaxServed == 2
MaxReqs == 3

(***************************************************************************)
(* net/http status codes used by rest.go and the example                   *)
(***************************************************************************)
StatusOK == 200
StatusBadRequest == 400
StatusNotFound == 404
StatusInternalServerError == 500

Slots == 1..MaxReqs
None == [k |-> "none", p |-> <<>>, a |-> "", b |-> ""]
Chunk(k, p, a, b) == [k |-> k, p |-> p, a |-> a, b |-> b]

(***************************************************************************)
(* Service structs: a sequence of fields, each with its type and tags.     *)
(* A path is a sequence of segments; a path template is a sequence of      *)
(* literals and capture slots of kind string or int.                       *)
(***************************************************************************)
LitSeg(s) == [t |-> "lit", v |-> s]
StrSlot(n) == [t |-> "string", v |-> n]
IntSlot(n) == [t |-> "int", v |-> n]

Field(name, type, method, path, func, request, ok, prefix) ==
  [name |-> name, type |-> type, method |-> method, path |-> path,
   func |-> func, request |-> request, ok |-> ok, prefix |-> prefix]

Anchor(prefix, ok) == Field("Service", "Service", "", <<>>, "", FALSE, ok, prefix)
Plain(name) == Field(name, "plain", "", <<>>, "", FALSE, TRUE, <<>>)

\* the service of rest.go's package comment, with named capture slots
ItemField == Field("Item", "Processor", "GET", <<LitSeg("item"), IntSlot("id")>>,
                   "HandleItem", FALSE, TRUE, <<>>)
AnyField == Field("Any", "Processor", "GET", <<LitSeg("item"), StrSlot("name")>>,
                  "HandleAny", FALSE, TRUE, <<>>)
NewField == Field("Fresh", "Processor", "GET", <<LitSeg("item"), LitSeg("new")>>,
                  "HandleFresh", FALSE, TRUE, <<>>)
PutField == Field("Put", "Processor", "POST", <<LitSeg("item"), IntSlot("id")>>,
                  "HandlePut", TRUE, TRUE, <<>>)
BadField == Field("Bad", "Processor", "", <<LitSeg("bad")>>, "HandleBad", FALSE, FALSE, <<>>)

FieldPool ==
  { Anchor(<<"prefix">>, TRUE), Anchor(<<"prefix">>, FALSE), Plain("cache"),
    ItemField, AnyField, NewField, PutField, BadField }

Injective(s) == \A i, j \in DOMAIN s : s[i].name = s[j].name => i = j

Structs ==
  UNION { { s \in [1..n -> FieldPool] : Injective(s) } : n \in 0..MaxFields }

\* what New may be handed: a struct, a pointer to a struct, or something else
Services ==
  { [kind |-> "ptr", fields |-> s] : s \in Structs }
    \cup { [kind |-> "struct", fields |-> s] : s \in { t \in Structs : Len(t) <= 1 } }
    \cup { [kind |-> "int", fields |-> <<>>] }

\* the example service, src/unnamed/part_000 lines 13-22
RestExample ==
  [kind |-> "ptr",
   fields |-> <<
     Anchor(<<"prefix">>, TRUE),
     Field("CreateHello", "Processor", "POST", <<LitSeg("hello")>>,
           "HandleCreateHello", TRUE, TRUE, <<>>),
     Field("GetHello", "Processor", "GET", <<LitSeg("hello"), StrSlot("to")>>,
           "HandleHello", FALSE, TRUE, <<>>),
     Field("Watch", "Streaming", "GET",
           <<LitSeg("hello"), StrSlot("to"), LitSeg("streaming")>>,
           "HandleWatch", FALSE, TRUE, <<>>),
     Plain("post"), Plain("watch") >>]

(***************************************************************************)
(* New, rest.go lines 67-113                                               *)
(***************************************************************************)
NoRest(err) ==
  [ok |-> FALSE, err |-> err, prefix |-> <<>>, defaultMime |-> "",
   defaultCharset |-> "", handlers |-> <<>>]

\* handler.Interface().(nodeInterface): Processor and Streaming fields
IsNode(f) == f.type \in {"Processor", "Streaming"}

\* initService: the anchor's tags give the prefix (and mime, charset)
initService(f) ==
  IF f.ok
  THEN [err |-> "", prefix |-> f.prefix, mime |-> "application/json",
        charset |-> "utf-8"]
  ELSE [err |-> "service tag", prefix |-> <<>>, mime |-> "", charset |-> ""]

\* newNode: one field's tags compiled into a node, or an error
newNode(prefix, f) ==
  IF f.ok /\ f.method # ""
  THEN [err |-> "",
        node |-> [name |-> f.name, method |-> f.method,
                  path |-> [k \in DOMAIN prefix |-> LitSeg(prefix[k])] \o f.path,
                  request |-> f.request, func |-> f.func,
                  streaming |-> (f.type = "Streaming")]]
  ELSE [err |-> "node tag",
        node |-> [name |-> f.name, method |-> "", path |-> <<>>,
                  request |-> FALSE, func |-> "", streaming |-> FALSE]]

\* the position of the field FieldByName("Service") finds, 0 when there is none
ServiceIndex(fields) ==
  IF \E i \in DOMAIN fields : fields[i].name = "Service"
  THEN CHOOSE i \in DOMAIN fields : fields[i].name = "Service"
  ELSE 0

\* the loop of lines 91-104, from field i on, with the handlers built so far
RECURSIVE BuildHandlers(_, _, _, _)
BuildHandlers(prefix, fields, i, acc) ==
  IF i > Len(fields) THEN [err |-> "", handlers |-> acc]
  ELSE IF ~IsNode(fields[i]) THEN BuildHandlers(prefix, fields, i + 1, acc)
  ELSE LET n == newNode(prefix, fields[i]) IN
       IF n.err # "" THEN [err |-> n.err, handlers |-> <<>>]
       ELSE BuildHandlers(prefix, fields, i + 1, Append(acc, n.node))

\* a mutant of the loop: a field that fails to compile is skipped
RECURSIVE BuildHandlersSkipBad(_, _, _, _)
BuildHandlersSkipBad(prefix, fields, i, acc) ==
  IF i > Len(fields) THEN [err |-> "", handlers |-> acc]
  ELSE IF ~IsNode(fields[i]) THEN BuildHandlersSkipBad(prefix, fields, i + 1, acc)
  ELSE LET n == newNode(prefix, fields[i]) IN
       IF n.err # "" THEN BuildHandlersSkipBad(prefix, fields, i + 1, acc)
       ELSE BuildHandlersSkipBad(prefix, fields, i + 1, Append(acc, n.node))

HandlersSkipBad(prefix, fields) == BuildHandlersSkipBad(prefix, fields, 1, <<>>)

\* a mutant of Handlers: each node is put in front of the ones built before
HandlersPrepended(prefix, fields) ==
  LET h == BuildHandlers(prefix, fields, 1, <<>>)
      n == Len(h.handlers)
  IN [h EXCEPT !.handlers = [k \in 1..n |-> h.handlers[n + 1 - k]]]

\* var handlers []*node and the loop over every field
Handlers(prefix, fields) == BuildHandlers(prefix, fields, 1, <<>>)

New(i) ==
  IF i.kind \notin {"struct", "ptr"} THEN NoRest("kind must struct or point to struct")
  ELSE IF ServiceIndex(i.fields) = 0 THEN NoRest("can't find restful.Service field")
  ELSE IF ServiceIndex(i.fields) # 1 THEN NoRest("1st field must be restful.Service")
  ELSE LET s == initService(i.fields[1]) IN
       IF s.err # "" THEN NoRest(s.err)
       ELSE LET h == Handlers(s.prefix, i.fields) IN
            IF h.err # "" THEN NoRest(h.err)
            ELSE [ok |-> TRUE, err |-> "", prefix |-> s.prefix,
                  defaultMime |-> s.mime, defaultCharset |-> s.charset,
                  handlers |-> h.handlers]

Prefix(s) == s.prefix

(***************************************************************************)
(* Requests                                                                *)
(***************************************************************************)
Request(method, path, body, mime) ==
  [method |-> method, path |-> path, body |-> body, mime |-> mime]
Body(ok, to, p) == [ok |-> ok, to |-> to, post |-> p]
NoBody == Body(FALSE, "", "")
NoRequest == Request("", <<>>, NoBody, "")

\* the segments strconv accepts as an int
Numeric == {"7"}
IsNumeric(s) == s \in Numeric

\* the marshaller's Unmarshal: malformed input is an error
Unmarshal(body) ==
  IF body.ok THEN [err |-> "", val |-> <<body.to, body.post>>]
  ELSE [err |-> "unexpected end of JSON input", val |-> <<>>]

(***************************************************************************)
(* Rest.findNode, rest.go lines 169-179                                    *)
(***************************************************************************)
\* h.path.MatchString: the compiled template against the whole path
PathMatch(pat, path) ==
  /\ Len(pat) = Len(path)
  /\ \A k \in DOMAIN pat : pat[k].t = "lit" => path[k] = pat[k].v

RECURSIVE findFrom(_, _, _)
findFrom(handlers, r, i) ==
  IF i > Len(handlers) THEN 0
  ELSE IF handlers[i].method # r.method THEN findFrom(handlers, r, i + 1)
  ELSE IF PathMatch(handlers[i].path, r.path) THEN i
  ELSE findFrom(handlers, r, i + 1)

\* mutants of findNode: the last match wins; the method is not compared
findNodeLast(handlers, r) ==
  LET m == { i \in DOMAIN handlers :
               handlers[i].method = r.method /\ PathMatch(handlers[i].path, r.path) }
  IN IF m = {} THEN 0 ELSE CHOOSE i \in m : \A j \in m : j <= i

findNode(handlers, r) == findFrom(handlers, r, 1)

(***************************************************************************)
(* node.match: the captured segments converted to the slots' kinds         *)
(***************************************************************************)
RECURSIVE matchFrom(_, _, _, _)
matchFrom(pat, path, k, acc) ==
  IF k > Len(pat) THEN [err |-> "", args |-> acc]
  ELSE IF pat[k].t = "lit" THEN matchFrom(pat, path, k + 1, acc)
  ELSE IF pat[k].t = "int" /\ ~IsNumeric(path[k])
       THEN [err |-> "invalid syntax", args |-> <<>>]
  ELSE matchFrom(pat, path, k + 1, Append(acc, [k |-> pat[k].t, v |-> <<path[k]>>]))

match(node, r) == matchFrom(node.path, r.path, 1, <<>>)

\* Vars(): the value captured by the slot called name, "" when there is none
PathVar(node, r, name) ==
  IF \E k \in DOMAIN node.path : node.path[k].t # "lit" /\ node.path[k].v = name
  THEN r.path[CHOOSE k \in DOMAIN node.path :
                node.path[k].t # "lit" /\ node.path[k].v = name]
  ELSE ""

\* newContent: the request's context, or an error for a mime with no marshaller
newContent(r) ==
  IF r.mime = "application/json" THEN [e |-> "", ctx |-> TRUE]
  ELSE [e |-> "unsupported mime", ctx |-> FALSE]

(***************************************************************************)
(* The response writer                                                     *)
(***************************************************************************)
NoResp == [code |-> 0, body |-> <<>>, headers |-> 0]

\* WriteHeader: the first call sets the status; every call is counted
WriteHeader(w, code) ==
  [w EXCEPT !.code = IF @ = 0 THEN code ELSE @, !.headers = @ + 1]

\* Write: an implicit WriteHeader(200) when none was written
Write(w, chunk) ==
  [code |-> IF w.code = 0 THEN StatusOK ELSE w.code,
   body |-> Append(w.body, chunk),
   headers |-> IF w.code = 0 THEN 1 ELSE w.headers]

\* http.Error(w, msg, code)
HttpError(w, chunk, code) == Write(WriteHeader(w, code), chunk)

\* net/http when ServeHTTP returns: a response with no header yet is a 200
Finish(w) == IF w.code = 0 THEN [w EXCEPT !.code = StatusOK] ELSE w

(***************************************************************************)
(* Rest.ServeHTTP, rest.go lines 121-167: what it has decided when it      *)
(* reaches node.handle, or when it returns before that                     *)
(***************************************************************************)
Outcome(node, errorCode, err, args, unmarshal, invoke, ctx, panic) ==
  [node |-> node, errorCode |-> errorCode, err |-> err, args |-> args,
   unmarshal |-> unmarshal, invoke |-> invoke, ctx |-> ctx, panic |-> panic,
   invoked |-> FALSE, wrote |-> FALSE]

NoOutcome == Outcome(0, 0, None, <<>>, FALSE, FALSE, FALSE, "")

\* a mutant of NoNode: err is not set, so the deferred function writes nothing
NoNodeSilent(r) == Outcome(0, StatusNotFound, None, <<>>, FALSE, FALSE, FALSE, "")

\* lines 136-139
NoNode(r) ==
  Outcome(0, StatusNotFound,
          Chunk("error", r.path, "can't find node to process", ""),
          <<>>, FALSE, FALSE, FALSE, "")

\* lines 142-145
MatchFailed(n, e) ==
  Outcome(n, StatusNotFound, Chunk("error", <<>>, e, ""),
          <<>>, FALSE, FALSE, FALSE, "")

\* line 148 tests err, the function's own variable, which nothing has set yet
ContentFailed(err, e) == err # ""

\* lines 149-150
BadContent(n, e) ==
  Outcome(n, StatusBadRequest, Chunk("error", <<>>, e, ""),
          <<>>, FALSE, FALSE, FALSE, "")

\* a mutant of Decode: the Unmarshal error is ignored
DecodeAnyway(n, node, r, args, ctx) ==
  IF ~node.request THEN Outcome(n, 0, None, args, FALSE, TRUE, ctx, "")
  ELSE Outcome(n, 0, None, Append(args, [k |-> "body", v |-> Unmarshal(r.body).val]),
               TRUE, TRUE, ctx, "")

\* lines 153-161; ctx.marshaller of a nil context is a nil dereference
Decode(n, node, r, args, ctx) ==
  IF ~node.request THEN Outcome(n, 0, None, args, FALSE, TRUE, ctx, "")
  ELSE IF ~ctx
       THEN Outcome(n, 0, None, <<>>, FALSE, FALSE, ctx, "nil pointer dereference")
  ELSE LET u == Unmarshal(r.body) IN
       IF u.err # ""
       THEN Outcome(n, StatusBadRequest,
                    Chunk("error", <<>>, "can't marshal request to type", u.err),
                    <<>>, TRUE, FALSE, ctx, "")
       ELSE Outcome(n, 0, None, Append(args, [k |-> "body", v |-> u.val]),
                    TRUE, TRUE, ctx, "")

Serve(s, r) ==
  LET n == findNode(s.handlers, r) IN
  IF n = 0 THEN NoNode(r)
  ELSE LET node == s.handlers[n]
           m == match(node, r) IN
       IF m.err # "" THEN MatchFailed(n, m.err)
       ELSE LET c == newContent(r) IN
            IF ContentFailed("", c.e) THEN BadContent(n, c.e)
            ELSE Decode(n, node, r, m.args, c.ctx)

\* a mutant of ValueReceiver: ServeHTTP moves the node it found to the front
\* of the handlers
MoveToFront(s, out) ==
  IF out.node <= 1 THEN s
  ELSE [s EXCEPT !.handlers =
          <<s.handlers[out.node]>> \o
            [k \in 1..(Len(s.handlers) - 1) |->
               IF k < out.node THEN s.handlers[k] ELSE s.handlers[k + 1]]]

\* line 121, func (s Rest) ServeHTTP: the receiver is a copy, and lines
\* 122-166 and findNode assign none of its fields; the router after the call
ValueReceiver(s, out) == s

\* a mutant of Deferred: the recovered panic sets errorCode but not err
DeferredLosesPanic(w, panic, err, errorCode) ==
  IF err # None THEN HttpError(w, err, errorCode) ELSE w

\* the deferred function, lines 124-133
Deferred(w, panic, err, errorCode) ==
  IF panic # ""
  THEN HttpError(w, Chunk("error", <<>>, "panic", panic), StatusInternalServerError)
  ELSE IF err # None THEN HttpError(w, err, errorCode)
  ELSE w

(***************************************************************************)
(* Spec: New, then requests served one after the other                     *)
(***************************************************************************)
Methods == {"GET", "POST"}
RouterPaths ==
  { <<"prefix", "item", "7">>, <<"prefix", "item", "abc">>,
    <<"prefix", "item", "new">>, <<"prefix", "other">>, <<"item", "7">> }
Bodies == { NoBody, Body(TRUE, "rest", "p1") }
Requests ==
  { Request("GET", p, NoBody, "application/json") : p \in RouterPaths }
    \cup { Request("POST", p, b, "application/json") : p \in RouterPaths, b \in Bodies }
    \cup { Request(m, <<"prefix", "item", "7">>, Body(TRUE, "rest", "p1"), "text/bogus") :
             m \in Methods }

\* what a handler of the service does once called: it returns a value, it
\* panics, it calls r.Error and returns, or it calls r.WriteHeader and then
\* panics
Behaviours == { "return", "panic", "error", "writepanic" }

NoService == [kind |-> "none", fields |-> <<>>]

\* a posted message; from (history) names the request that posted it
Msg(p, from) == [post |-> p, from |-> from]
NoMsg == Msg("", 0)
NoEpoch == [closed |-> {}, done |-> {}, read |-> 0]

InitShared ==
  /\ served = 0
  /\ pc = [i \in Slots |-> "idle"]
  /\ req = [i \in Slots |-> NoRequest]
  /\ disp = [i \in Slots |-> NoOutcome]
  /\ resp = [i \in Slots |-> NoResp]
  /\ post = [k \in {} |-> ""]
  /\ watch = [k \in {} |-> 0]
  /\ chan = [i \in Slots |-> [made |-> FALSE, closed |-> FALSE, buf |-> <<>>]]
  /\ ch = [i \in Slots |-> 0]
  /\ got = [i \in Slots |-> NoMsg]
  /\ armed = [i \in Slots |-> FALSE]
  /\ conn = [i \in Slots |-> <<>>]
  /\ sends = <<>>
  /\ stores = <<>>
  /\ panics = 0
  /\ epoch = [i \in Slots |-> NoEpoch]
  /\ crashed = FALSE
  /\ instance = 0
  /\ seen = [i \in Slots |-> 0]

Init ==
  /\ built = FALSE
  /\ rest = NoRest("")
  /\ svc = NoService
  /\ InitShared

\* rest, err := New(i)
DoNew(i) ==
  /\ ~built
  /\ built' = TRUE
  /\ svc' = i
  /\ rest' = New(i)
  /\ UNCHANGED <<instance, seen, served, pc, req, disp, resp, post, watch, chan, ch, got, armed,
                 conn, sends, stores, panics, epoch, crashed>>

\* r.Error(code, err) of the context
CtxError(w, code, chunk) == HttpError(w, chunk, code)

\* node.handle after the handler has returned a value: it is marshalled into
\* the response unless the handler has written one
Marshal(w, chunk) == IF w.code = 0 THEN Write(w, chunk) ELSE w

\* node.handle with a handler that behaves as h says; the value it returns
\* is marshalled into the response, which needs the context
Handle(out, node, h) ==
  IF ~out.ctx THEN [panic |-> "nil pointer dereference", w |-> NoResp]
  ELSE IF h = "panic" THEN [panic |-> "handler panic", w |-> NoResp]
  ELSE IF h = "writepanic"
       THEN [panic |-> "handler panic", w |-> WriteHeader(NoResp, StatusOK)]
  ELSE IF h = "error"
       THEN [panic |-> "",
             w |-> Marshal(CtxError(NoResp, StatusNotFound,
                                    Chunk("error", <<>>, "handler error", "")),
                           Chunk("value", <<>>, node.func, ""))]
  ELSE [panic |-> "", w |-> Marshal(NoResp, Chunk("value", <<>>, node.func, ""))]

\* one whole call of ServeHTTP, served in slot 1
ServeHTTP(r, h) ==
  /\ built /\ rest.ok /\ served < MaxServed
  /\ LET out == Serve(rest, r)
         run == IF out.invoke THEN Handle(out, rest.handlers[out.node], h)
                ELSE [panic |-> out.panic, w |-> NoResp]
     IN /\ disp' = [disp EXCEPT ![1] = [out EXCEPT !.invoked = out.invoke,
                                                   !.panic = run.panic,
                                                   !.wrote = run.w.code # 0]]
        /\ resp' = [resp EXCEPT
                      ![1] = Finish(Deferred(run.w, run.panic, out.err, out.errorCode))]
        /\ panics' = IF run.panic # "" THEN panics + 1 ELSE panics
  /\ req' = [req EXCEPT ![1] = r]
  /\ pc' = [pc EXCEPT ![1] = "done"]
  /\ served' = served + 1
  /\ rest' = ValueReceiver(rest, Serve(rest, r))
  /\ UNCHANGED <<instance, seen, built, svc, post, watch, chan, ch, got, armed, conn, sends,
                 stores, epoch, crashed>>

Next ==
  \/ ~built /\ \E i \in Services : DoNew(i)
  \/ \E r \in Requests :
       \E h \in IF Serve(rest, r).invoke THEN Behaviours ELSE {"return"} :
         ServeHTTP(r, h)

Spec == Init /\ [][Next]_vars

(***************************************************************************)
(* SpecExample: the router of RestExample, one goroutine per request.      *)
(* A handler takes one step per access to r.post, r.watch or a channel;    *)
(* what it does between two such accesses is part of the step.  Each       *)
(* handler here reads the context ServeHTTP built for its own request      *)
(* (line 166); how the context reaches the handler is SpecCtx's subject.   *)
(***************************************************************************)
ExKeys == { "rest", "go" }
ExPosts == { "p1", "p2" }
JSON == "application/json"
ExRequests ==
  { Request("POST", <<"prefix", "hello">>, Body(TRUE, k, m), JSON) :
      k \in ExKeys, m \in ExPosts }
    \cup { Request("POST", <<"prefix", "hello">>, NoBody, JSON) }
    \cup { Request("GET", <<"prefix", "hello", k>>, NoBody, JSON) : k \in ExKeys }
    \cup { Request("GET", <<"prefix", "hello", k, "streaming">>, NoBody, JSON) :
             k \in ExKeys }
    \cup { Request("GET", <<"prefix", "other">>, NoBody, JSON),
           Request("GET", <<"prefix", "hello", "rest">>, NoBody, "text/bogus") }

\* instance := &RestExample{post: make(...), watch: make(...)}; New(instance)
InitExample ==
  /\ built = TRUE
  /\ svc = RestExample
  /\ rest = New(RestExample)
  /\ InitShared

NodeOf(i) == rest.handlers[disp[i].node]
FuncOf(i) == IF disp[i].node = 0 THEN "" ELSE NodeOf(i).func

\* arg.To and arg.Post of HandleCreateHello, r.Vars()["to"] of the others
Arg(i) == disp[i].args[Len(disp[i].args)].v
To(i) ==
  IF FuncOf(i) = "HandleCreateHello" THEN Arg(i)[1]
  ELSE PathVar(NodeOf(i), req[i], "to")

\* m[k] = v of a Go map
MapSet(m, k, v) == [x \in DOMAIN m \cup {k} |-> IF x = k THEN v ELSE m[x]]
\* delete(m, k)
MapDelete(m, k) == [x \in DOMAIN m \ {k} |-> m[x]]

\* a mutant of ChanCap: make(chan string, 1)
ChanCapOne == 0 + 1

\* make(chan string): the capacity of the channel
ChanCap == 0

\* the sessions whose Write has failed
Closed == { j \in Slots : pc[j] \in {"close", "delete"} \/ (pc[j] = "done" /\ chan[j].made) }

FirstStep(f) ==
  CASE f = "HandleCreateHello" -> "store"
    [] f = "HandleHello" -> "get"
    [] f = "HandleWatch" -> "register"
    [] OTHER -> "done"

\* ServeHTTP up to node.handle (lines 121-166); a request that does not
\* reach its handler is answered here. A handler called with a nil context
\* panics at its first r.Vars().
Arrive(i, r) ==
  /\ ~crashed
  /\ pc[i] = "idle"
  /\ IF i = 1 THEN TRUE ELSE pc[i - 1] # "idle"
  /\ LET out == Serve(rest, r)
         pan == IF out.invoke /\ ~out.ctx THEN "nil pointer dereference" ELSE out.panic
         enter == out.invoke /\ out.ctx
     IN /\ disp' = [disp EXCEPT ![i] = [out EXCEPT !.invoked = out.invoke, !.panic = pan]]
        /\ pc' = [pc EXCEPT
                    ![i] = IF enter THEN FirstStep(rest.handlers[out.node].func)
                           ELSE "done"]
        /\ resp' = [resp EXCEPT
                      ![i] = IF enter THEN NoResp
                             ELSE Finish(Deferred(NoResp, pan, out.err, out.errorCode))]
        /\ panics' = IF pan # "" THEN panics + 1 ELSE panics
  /\ req' = [req EXCEPT ![i] = r]
  /\ epoch' = [epoch EXCEPT
                 ![i] = [closed |-> Closed, done |-> { j \in Slots : pc[j] = "done" },
                         read |-> 0]]
  /\ rest' = ValueReceiver(rest, Serve(rest, r))
  /\ UNCHANGED <<instance, seen, built, svc, served, post, watch, chan, ch, got, armed, conn,
                 sends, stores, crashed>>

\* HandleCreateHello line 34: r.post[arg.To] = arg.Post
Store(i) ==
  /\ ~crashed
  /\ pc[i] = "store"
  /\ post' = MapSet(post, Arg(i)[1], Arg(i)[2])
  /\ stores' = Append(stores, i)
  /\ pc' = [pc EXCEPT ![i] = "lookup"]
  /\ UNCHANGED <<instance, seen, built, rest, svc, served, req, disp, resp, watch, chan, ch, got,
                 armed, conn, sends, panics, epoch, crashed>>

\* the sessions that have stored a channel under k and wait at line 81
Waiting(k) == { j \in Slots : pc[j] = "recv" /\ PathVar(NodeOf(j), req[j], "to") = k }

\* history: what request i's push came to, and which sessions then waited
Push(i, c, how) ==
  [from |-> i, to |-> c, how |-> how, waiting |-> Waiting(To(i)),
   ready |-> IF c = 0 THEN FALSE ELSE pc[c] = "recv"]

\* line 35: c, ok := r.watch[arg.To]; the handler returns when !ok
Lookup(i) ==
  /\ ~crashed
  /\ pc[i] = "lookup"
  /\ IF To(i) \in DOMAIN watch
     THEN /\ ch' = [ch EXCEPT ![i] = watch[To(i)]]
          /\ pc' = [pc EXCEPT ![i] = "send"]
          /\ resp' = resp
          /\ sends' = sends
     ELSE /\ ch' = ch
          /\ pc' = [pc EXCEPT ![i] = "done"]
          /\ resp' = [resp EXCEPT ![i] = Finish(Deferred(@, "", None, 0))]
          /\ sends' = Append(sends, Push(i, 0, "absent"))
  /\ UNCHANGED <<instance, seen, built, rest, svc, served, req, disp, post, watch, chan, got, armed,
                 conn, stores, panics, epoch, crashed>>

\* select { case c <- v: default: } on channel c: a send on a closed channel
\* panics; the send proceeds when a receiver waits or the buffer has room;
\* otherwise the default case is taken
SelectSend(c) ==
  IF chan[c].closed THEN "panic"
  ELSE IF pc[c] = "recv" THEN "delivered"
  ELSE IF Len(chan[c].buf) < ChanCap THEN "queued"
  ELSE "dropped"

\* lines 37-40, and the return through ServeHTTP's deferred function
Send(i) ==
  /\ ~crashed
  /\ pc[i] = "send"
  /\ LET c == ch[i]
         how == SelectSend(c)
         m == Msg(Arg(i)[2], i)
         pan == IF how = "panic" THEN "send on closed channel" ELSE ""
     IN /\ how # "blocked"
        /\ sends' = Append(sends, Push(i, c, how))
        /\ got' = IF how = "delivered" THEN [got EXCEPT ![c] = m] ELSE got
        /\ chan' = IF how = "queued" THEN [chan EXCEPT ![c].buf = Append(@, m)] ELSE chan
        /\ pc' = [pc EXCEPT ![i] = "done", ![c] = IF how = "delivered" THEN "write" ELSE @]
        /\ resp' = [resp EXCEPT ![i] = Finish(Deferred(@, pan, None, 0))]
        /\ disp' = [disp EXCEPT ![i].panic = pan]
        /\ panics' = IF pan # "" THEN panics + 1 ELSE panics
  /\ UNCHANGED <<instance, seen, built, rest, svc, served, req, post, watch, ch, armed, conn,
                 stores, epoch, crashed>>

\* HandleHello, lines 49-64: r.Vars() is not nil on this route
Get(i) ==
  /\ ~crashed
  /\ pc[i] = "get"
  /\ LET to == To(i)
         w == IF to \in DOMAIN post
              THEN Marshal(resp[i], Chunk("HelloArg", <<>>, to, post[to]))
              ELSE Marshal(CtxError(resp[i], StatusNotFound,
                                    Chunk("error", <<>>, "can't find hello to", to)),
                           Chunk("HelloArg", <<>>, "", ""))
     IN resp' = [resp EXCEPT ![i] = Finish(Deferred(w, "", None, 0))]
  /\ epoch' = [epoch EXCEPT ![i].read = Len(stores)]
  /\ pc' = [pc EXCEPT ![i] = "done"]
  /\ UNCHANGED <<instance, seen, built, rest, svc, served, req, disp, post, watch, chan, ch, got,
                 armed, conn, sends, stores, panics, crashed>>

\* the receive of line 81 when the handler reaches it: a buffered message
\* is taken at once, otherwise the handler waits
Receive(i, c) ==
  IF c.buf # <<>>
  THEN [pc |-> "write", got |-> Head(c.buf), chan |-> [c EXCEPT !.buf = Tail(@)]]
  ELSE [pc |-> "recv", got |-> got[i], chan |-> c]

\* HandleWatch lines 72-79: an empty identifier is a 400; otherwise the
\* header is written, the channel made and stored under the identifier
Register(i) ==
  /\ ~crashed
  /\ pc[i] = "register"
  /\ IF To(i) = ""
     THEN /\ resp' = [resp EXCEPT
                        ![i] = Finish(Deferred(
                                 CtxError(@, StatusBadRequest,
                                          Chunk("error", <<>>, "need to", "")),
                                 "", None, 0))]
          /\ pc' = [pc EXCEPT ![i] = "done"]
          /\ UNCHANGED <<watch, chan, ch>>
     ELSE /\ resp' = [resp EXCEPT ![i] = WriteHeader(@, StatusOK)]
          /\ chan' = [chan EXCEPT ![i] = [made |-> TRUE, closed |-> FALSE, buf |-> <<>>]]
          /\ ch' = [ch EXCEPT ![i] = i]
          /\ watch' = MapSet(watch, To(i), i)
          /\ pc' = [pc EXCEPT ![i] = "recv"]
  /\ UNCHANGED <<instance, seen, built, rest, svc, served, req, disp, post, got, armed, conn, sends,
                 stores, panics, epoch, crashed>>

\* s.SetDeadline(time.Now().Add(time.Second))
SetDeadline(a) == TRUE

\* a mutant of DeadlineWrite: the write comes before the deadline is set
WriteDeadline(a, m, ok) == [msg |-> m, deadline |-> a, ok |-> ok]

\* lines 82-83: the deadline is set, then post is written; a is the state
\* of the deadline before, ok whether the write succeeds
DeadlineWrite(a, m, ok) == [msg |-> m, deadline |-> SetDeadline(a), ok |-> ok]

\* a mutant of AfterWrite: the error of Write is not looked at
AfterWriteIgnoresErr(ok) == "loop"

\* line 84: if err != nil the handler leaves the loop
AfterWrite(ok) == IF ok THEN "loop" ELSE "close"

\* lines 82-84 and, after a write that succeeded, the next receive
StreamWrite(i, ok) ==
  /\ ~crashed
  /\ pc[i] = "write"
  /\ conn' = [conn EXCEPT ![i] = Append(@, DeadlineWrite(armed[i], got[i], ok))]
  /\ armed' = armed
  /\ IF AfterWrite(ok) = "loop"
     THEN LET n == Receive(i, chan[i])
          IN /\ pc' = [pc EXCEPT ![i] = n.pc]
             /\ got' = [got EXCEPT ![i] = n.got]
             /\ chan' = [chan EXCEPT ![i] = n.chan]
     ELSE /\ pc' = [pc EXCEPT ![i] = "close"]
          /\ UNCHANGED <<got, chan>>
  /\ UNCHANGED <<instance, seen, built, rest, svc, served, req, disp, resp, post, watch, ch, sends,
                 stores, panics, epoch, crashed>>

\* line 85: close(c)
Close(i) ==
  /\ ~crashed
  /\ pc[i] = "close"
  /\ chan' = [chan EXCEPT ![i].closed = TRUE]
  /\ pc' = [pc EXCEPT ![i] = "delete"]
  /\ UNCHANGED <<instance, seen, built, rest, svc, served, req, disp, resp, post, watch, ch, got,
                 armed, conn, sends, stores, panics, epoch, crashed>>

\* lines 86-87: delete(r.watch, to); return
Delete(i) ==
  /\ ~crashed
  /\ pc[i] = "delete"
  /\ watch' = MapDelete(watch, To(i))
  /\ pc' = [pc EXCEPT ![i] = "done"]
  /\ resp' = [resp EXCEPT ![i] = Finish(Deferred(@, "", None, 0))]
  /\ UNCHANGED <<instance, seen, built, rest, svc, served, req, disp, post, chan, ch, got, armed,
                 conn, sends, stores, panics, epoch, crashed>>

\* the map a handler is about to access, and whether it writes it
Access(i) ==
  CASE pc[i] = "store" -> [map |-> "post", write |-> TRUE]
    [] pc[i] = "get" -> [map |-> "post", write |-> FALSE]
    [] pc[i] = "lookup" -> [map |-> "watch", write |-> FALSE]
    [] pc[i] = "register" -> [map |-> "watch", write |-> TRUE]
    [] pc[i] = "delete" -> [map |-> "watch", write |-> TRUE]
    [] OTHER -> [map |-> "", write |-> FALSE]

Race(i, j) ==
  /\ i # j
  /\ Access(i).map # ""
  /\ Access(i).map = Access(j).map
  /\ Access(i).write \/ Access(j).write

\* the maps are not synchronised: two goroutines at conflicting accesses of
\* the same map may run them at once, and the runtime may then throw
\* "concurrent map writes" (or "concurrent map read and map write"), which
\* ends the process
Fatal ==
  /\ ~crashed
  /\ \E i, j \in Slots : Race(i, j)
  /\ crashed' = TRUE
  /\ UNCHANGED <<instance, seen, built, rest, svc, served, pc, req, disp, resp, post, watch, chan,
                 ch, got, armed, conn, sends, stores, panics, epoch>>

NextExample ==
  \/ \E i \in Slots : \E r \in ExRequests : Arrive(i, r)
  \/ \E i \in Slots : Store(i)
  \/ \E i \in Slots : Lookup(i)
  \/ \E i \in Slots : Send(i)
  \/ \E i \in Slots : Get(i)
  \/ \E i \in Slots : Register(i)
  \/ \E i \in Slots : \E ok \in BOOLEAN : StreamWrite(i, ok)
  \/ \E i \in Slots : Close(i)
  \/ \E i \in Slots : Delete(i)
  \/ Fatal

SpecExample == InitExample /\ [][NextExample]_vars

(***************************************************************************)
(* SpecCtx: how the context of a request reaches its handler.  ServeHTTP   *)
(* hands s.instance, the one service value every request shares, and the   *)
(* request's context to node.handle (line 166), which attaches the context *)
(* to the instance and calls the handler on it; the handler's receiver is  *)
(* a copy of the instance made at the call.                                *)
(***************************************************************************)
\* ServeHTTP lines 121-164: a request that does not reach node.handle is
\* answered here
Dispatch(i, r) ==
  /\ pc[i] = "idle"
  /\ IF i = 1 THEN TRUE ELSE pc[i - 1] # "idle"
  /\ LET out == Serve(rest, r)
         pan == IF out.invoke /\ ~out.ctx THEN "nil pointer dereference" ELSE out.panic
         enter == out.invoke /\ out.ctx
     IN /\ disp' = [disp EXCEPT ![i] = [out EXCEPT !.invoked = out.invoke, !.panic = pan]]
        /\ pc' = [pc EXCEPT ![i] = IF enter THEN "attach" ELSE "done"]
        /\ resp' = [resp EXCEPT
                      ![i] = IF enter THEN NoResp
                             ELSE Finish(Deferred(NoResp, pan, out.err, out.errorCode))]
        /\ panics' = IF pan # "" THEN panics + 1 ELSE panics
  /\ req' = [req EXCEPT ![i] = r]
  /\ rest' = ValueReceiver(rest, Serve(rest, r))
  /\ UNCHANGED <<instance, seen, built, svc, served, post, watch, chan, ch, got, armed,
                 conn, sends, stores, epoch, crashed>>

\* node.handle: the context of the request is attached to the instance
Attach(i) ==
  /\ pc[i] = "attach"
  /\ instance' = i
  /\ pc' = [pc EXCEPT ![i] = "call"]
  /\ UNCHANGED <<seen, built, rest, svc, served, req, disp, resp, post, watch, chan, ch,
                 got, armed, conn, sends, stores, panics, epoch, crashed>>

\* node.handle: the handler is called; its value receiver (func (r
\* RestExample) ...) is the instance as it is at the call
Call(i) ==
  /\ pc[i] = "call"
  /\ seen' = [seen EXCEPT ![i] = instance]
  /\ pc' = [pc EXCEPT ![i] = "run"]
  /\ UNCHANGED <<instance, built, rest, svc, served, req, disp, resp, post, watch, chan,
                 ch, got, armed, conn, sends, stores, panics, epoch, crashed>>

\* the path of the request whose context the handler of i reads with r.Vars()
Vars(i) == req[seen[i]].path

\* the handler reads r.Vars() and returns; node.handle marshals what it
\* returns into the response of the request
Run(i) ==
  /\ pc[i] = "run"
  /\ resp' = [resp EXCEPT
                ![i] = Finish(Marshal(@, Chunk("value", Vars(i), FuncOf(i), "")))]
  /\ pc' = [pc EXCEPT ![i] = "done"]
  /\ UNCHANGED <<instance, seen, built, rest, svc, served, req, disp, post, watch, chan,
                 ch, got, armed, conn, sends, stores, panics, epoch, crashed>>

NextCtx ==
  \/ \E i \in Slots : \E r \in ExRequests : Dispatch(i, r)
  \/ \E i \in Slots : Attach(i)
  \/ \E i \in Slots : Call(i)
  \/ \E i \in Slots : Run(i)

SpecCtx == InitExample /\ [][NextCtx]_vars

(***************************************************************************)
(* Claims about New and ServeHTTP, checked under Spec                      *)
(***************************************************************************)
\* the routes of s whose method is r's and whose template matches r's path
Matching(s, r) ==
  { i \in DOMAIN s.handlers :
      s.handlers[i].method = r.method /\ PathMatch(s.handlers[i].path, r.path) }

\* the routes whose template matches r's path, whatever their method
PathMatching(s, r) ==
  { i \in DOMAIN s.handlers : PathMatch(s.handlers[i].path, r.path) }

Earliest(m) == IF m = {} THEN 0 ELSE CHOOSE i \in m : \A j \in m : i <= j

Served == pc[1] = "done"

\* C1: the route ServeHTTP selects for a request is the earliest-declared one
\* whose method is the request's and whose path template matches; a later
\* match, or a route of another method, is never selected.
C1_FirstMatch ==
  Served =>
    /\ disp[1].node = Earliest(Matching(rest, req[1]))
    /\ disp[1].node # 0 => rest.handlers[disp[1].node].method = req[1].method

\* C1 witness: two routes match the request, a third matches its path under
\* another method, and the first declared one was selected.
C1_Witness ==
  /\ Served
  /\ Cardinality(Matching(rest, req[1])) >= 2
  /\ PathMatching(rest, req[1]) \ Matching(rest, req[1]) # {}
  /\ Earliest(PathMatching(rest, req[1])) \notin Matching(rest, req[1])
  /\ disp[1].node = Earliest(Matching(rest, req[1]))

\* C2: a request no route matches gets a 404 whose body explains it; no
\* handler is invoked and no body is decoded.
C2_NotFound ==
  (Served /\ Matching(rest, req[1]) = {}) =>
    /\ resp[1].code = StatusNotFound
    /\ resp[1].body =
         <<Chunk("error", req[1].path, "can't find node to process", "")>>
    /\ ~disp[1].invoked
    /\ ~disp[1].unmarshal

\* C2 witness: a served request that no route matched, while some route
\* matched its path under another method.
C2_Witness ==
  /\ Served
  /\ Matching(rest, req[1]) = {}
  /\ PathMatching(rest, req[1]) # {}
  /\ resp[1].code = StatusNotFound

Slots_(node) == { k \in DOMAIN node.path : node.path[k].t # "lit" }

\* C3: on a route that declares a body, a failed decode is a 400 and the
\* handler is not invoked; when the handler is invoked the decoded body is
\* its last argument, after one argument per capture slot.
C3_DecodeFailure ==
  Served =>
    /\ (disp[1].unmarshal /\ ~req[1].body.ok) =>
         /\ resp[1].code = StatusBadRequest
         /\ ~disp[1].invoked
    /\ (disp[1].invoked /\ rest.handlers[disp[1].node].request) =>
         LET a == disp[1].args
             node == rest.handlers[disp[1].node]
         IN /\ req[1].body.ok
            /\ Len(a) = Cardinality(Slots_(node)) + 1
            /\ a[Len(a)] = [k |-> "body", v |-> <<req[1].body.to, req[1].body.post>>]
            /\ \A k \in 1..(Len(a) - 1) : a[k].k # "body"

\* C3 witness: a route with a capture slot and a body was matched and the
\* body did not decode.
C3_Witness ==
  /\ Served
  /\ disp[1].node # 0
  /\ rest.handlers[disp[1].node].request
  /\ Slots_(rest.handlers[disp[1].node]) # {}
  /\ disp[1].unmarshal
  /\ ~req[1].body.ok
  /\ resp[1].code = StatusBadRequest

\* an int slot of the selected route holds a segment that is no number
BadIntSegment(s, r, n) ==
  \E k \in DOMAIN s.handlers[n].path :
    s.handlers[n].path[k].t = "int" /\ ~IsNumeric(r.path[k])

\* C4: a request that matches a route with an int capture slot whose segment
\* is not numeric gets a 400, and the handler is not invoked.
C4_NonNumeric400 ==
  (Served /\ disp[1].node # 0 /\ BadIntSegment(rest, req[1], disp[1].node)) =>
    /\ resp[1].code = StatusBadRequest
    /\ ~disp[1].invoked

AnchorAbsent(f) == \A i \in DOMAIN f : f[i].name # "Service"
AnchorNotFirst(f) == f # <<>> /\ f[1].name # "Service"
AnchorBad(f) == f # <<>> /\ f[1].name = "Service" /\ ~f[1].ok
BadRoutable(f) == { i \in DOMAIN f : IsNode(f[i]) /\ (~f[i].ok \/ f[i].method = "") }

\* C6: New returns an error and no router when the anchor is absent, is not
\* the first field, fails to initialise, or a routable field fails to
\* compile; it returns a router only when none of these is the case.
C6_AllOrNothing ==
  built =>
    LET bad == \/ AnchorAbsent(svc.fields)
               \/ AnchorNotFirst(svc.fields)
               \/ AnchorBad(svc.fields)
               \/ BadRoutable(svc.fields) # {}
    IN /\ bad => (rest.err # "" /\ ~rest.ok /\ rest.handlers = <<>>)
       /\ rest.ok => (~bad /\ rest.err = "")

\* C6 witness: the anchor is in place and the last of several routable
\* fields fails to compile: New returned an error and no router.
C6_Witness ==
  /\ built
  /\ ~AnchorAbsent(svc.fields) /\ ~AnchorNotFirst(svc.fields) /\ ~AnchorBad(svc.fields)
  /\ BadRoutable(svc.fields) = {Len(svc.fields)}
  /\ Len(svc.fields) >= 3
  /\ rest.err # "" /\ ~rest.ok

(***************************************************************************)
(* Claims about RestExample, checked under SpecExample                     *)
(***************************************************************************)
Done(i) == pc[i] = "done"
IsPost(i) == FuncOf(i) = "HandleCreateHello" /\ disp[i].invoked
IsGet(i) == FuncOf(i) = "HandleHello" /\ disp[i].invoked /\ disp[i].ctx
IsWatch(i) == FuncOf(i) = "HandleWatch" /\ disp[i].invoked /\ disp[i].ctx

\* the stores into r.post[k] among the first n stores
StoresFor(k, n) == { x \in 1..n : Arg(stores[x])[1] = k }
Latest(xs) == CHOOSE x \in xs : \A y \in xs : y <= x

\* the session j has taken, or written, the message request p posted
Holds(j, p) ==
  \/ pc[j] = "write" /\ got[j].from = p
  \/ \E n \in DOMAIN conn[j] : conn[j][n].msg.from = p

\* what a GET of /hello/<to> answers, given the stores made before it read
\* r.post: 404 and an explanation when there is none for <to>, else 200
\* and {to, post} of the latest one
GetAnswer(i) ==
  LET st == StoresFor(To(i), epoch[i].read) IN
  IF st = {}
  THEN /\ resp[i].code = StatusNotFound
       /\ resp[i].body = <<Chunk("error", <<>>, "can't find hello to", To(i))>>
  ELSE /\ resp[i].code = StatusOK
       /\ resp[i].body =
            <<Chunk("HelloArg", <<>>, To(i), Arg(stores[Latest(st)])[2])>>

\* C7: a GET of /hello/<to> answers 404 with an explanation while nothing
\* is posted for <to>, a POST of {to, post} is answered with an empty
\* success response, and a GET after it answers 200 with the latest
\* {to, post}.
C7_ReadYourWrites ==
  \A i \in Slots : Done(i) =>
    /\ IsPost(i) => (resp[i].code = StatusOK /\ resp[i].body = <<>>)
    /\ IsGet(i) => GetAnswer(i)

\* the part of C7 about GET alone: the answer follows the stores made
\* before r.post was read
C7_GetFollowsStores == \A i \in Slots : (Done(i) /\ IsGet(i)) => GetAnswer(i)

\* C8: a session that has registered for k and waits for its next message
\* when a POST for k is handled writes exactly the posted message, once,
\* with the deadline set before the write.
C8_Delivery ==
  /\ \A n \in DOMAIN sends : \A j \in sends[n].waiting : Holds(j, sends[n].from)
  /\ \A j \in Slots : \A n \in DOMAIN conn[j] :
       /\ conn[j][n].deadline
       /\ conn[j][n].msg.post = Arg(conn[j][n].msg.from)[2]
       /\ \A m \in DOMAIN conn[j] : conn[j][m].msg.from = conn[j][n].msg.from => m = n

\* the part of C8 that holds: the session whose channel the POST found in
\* r.watch, waiting at its receive when the POST sends, writes that message
C8_CurrentSessionDelivery ==
  /\ \A n \in DOMAIN sends :
       (sends[n].how # "absent" /\ sends[n].ready /\ ~chan[sends[n].to].closed)
         => Holds(sends[n].to, sends[n].from)
  /\ \A j \in Slots : \A n \in DOMAIN conn[j] :
       /\ conn[j][n].deadline
       /\ conn[j][n].msg.post = Arg(conn[j][n].msg.from)[2]

\* C9: the push never waits for the session; a message pushed while the
\* session is not at its receive is dropped, not queued; no pushed message
\* is written to a streaming connection more than once.
C9_SendOrDrop ==
  /\ \A i \in Slots : (pc[i] = "send" /\ ~crashed) => ENABLED Send(i)
  /\ \A c \in Slots : chan[c].buf = <<>>
  /\ \A n \in DOMAIN sends :
       /\ sends[n].how \in {"absent", "panic", "delivered", "dropped"}
       /\ sends[n].how = "delivered" => sends[n].ready
       /\ (sends[n].how \in {"panic", "dropped"}) => ~sends[n].ready
       /\ sends[n].how # "delivered" => \A j \in Slots : ~Holds(j, sends[n].from)
  /\ \A p \in Slots :
       Cardinality({ x \in Slots \X (1..MaxReqs) :
                       /\ x[2] \in DOMAIN conn[x[1]]
                       /\ conn[x[1]][x[2]].msg.from = p }) <= 1

\* C9 witness: one push was delivered and written, a later push for the
\* same session found it away from its receive and was dropped, and the
\* pushing request was answered with a success.
C9_Witness ==
  \E n \in DOMAIN sends :
    /\ sends[n].how = "dropped"
    /\ Done(sends[n].from)
    /\ resp[sends[n].from].code = StatusOK
    /\ conn[sends[n].to] # <<>>
    /\ sends[n].from \notin
         { conn[sends[n].to][m].msg.from : m \in DOMAIN conn[sends[n].to] }

\* C10: a session whose write failed has removed its entry of r.watch when
\* its handler returns, and a push for its identifier that arrives after
\* the failure completes normally and delivers nothing to it.
C10_ClosedNoOp ==
  /\ \A j \in Slots : (Done(j) /\ chan[j].made) =>
       /\ chan[j].closed
       /\ To(j) \in DOMAIN watch => watch[To(j)] # j
  /\ \A p \in Slots : (Done(p) /\ IsPost(p)) =>
       \A j \in epoch[p].closed : To(j) = To(p) =>
         /\ disp[p].panic = ""
         /\ resp[p].code = StatusOK
         /\ ~Holds(j, p)

\* the part of C10 about the session alone
C10_Released ==
  \A j \in Slots : (Done(j) /\ chan[j].made) =>
    /\ chan[j].closed
    /\ To(j) \in DOMAIN watch => watch[To(j)] # j

(***************************************************************************)
(* Claims about the response writer                                        *)
(***************************************************************************)
\* C11: for every request a status is written at most once: when the
\* handler has written a response, ServeHTTP and its deferred function
\* write no second status and no error body.
C11_WriteOnce ==
  \A i \in Slots :
    /\ resp[i].headers <= 1
    /\ (disp[i].invoked /\ disp[i].wrote) =>
         \A n \in DOMAIN resp[i].body : resp[i].body[n].a # "panic"

(***************************************************************************)
(* Claims about the router under dispatch                                  *)
(***************************************************************************)
\* C12: whatever requests have been served, answered by a handler or with
\* 404, 400 or 500, the router is the one New built: Prefix() is the prefix
\* tag of the anchor, the defaults and the ordered handlers are unchanged,
\* and the node found for the request is the node New's router finds.
C12_RouterUnchanged ==
  (built /\ rest.ok) =>
    /\ rest = New(svc)
    /\ Prefix(rest) = svc.fields[1].prefix
    /\ \A i \in Slots : pc[i] # "idle" =>
         disp[i].node = findNode(New(svc).handlers, req[i])

\* C12 witness: two requests have been served by a router of two routes or
\* more, one of them ended in a panic, and the last one was answered by a
\* node that is not the first
C12_Witness ==
  /\ built /\ rest.ok
  /\ served = MaxServed
  /\ panics >= 1
  /\ disp[1].node > 1

(***************************************************************************)
(* Claims about the streaming session                                      *)
(***************************************************************************)
\* Created, Writing (header sent, in the loop of lines 80-89), Closed
Phase(p) ==
  CASE p \in {"idle", "register"} -> 0
    [] p \in {"recv", "write"} -> 1
    [] OTHER -> 2

\* the session i as the lifecycle sees it
SessionOrder(i) ==
  /\ resp[i].headers <= 1
  /\ Phase(pc[i]) >= 1 => (resp[i].headers = 1 /\ resp[i].code = StatusOK)
  /\ conn[i] # <<>> => resp[i].headers = 1
  /\ \A n \in DOMAIN conn[i] : n < Len(conn[i]) => conn[i][n].ok
  /\ (conn[i] # <<>> /\ ~conn[i][Len(conn[i])].ok) <=> Phase(pc[i]) = 2

\* one step of the session i
SessionStep(i) ==
  /\ Phase(pc'[i]) >= Phase(pc[i])
  /\ resp[i].headers = 1 => resp'[i].headers = 1
  /\ Len(conn'[i]) >= Len(conn[i])
  /\ Phase(pc[i]) = 2 => (conn'[i] = conn[i] /\ resp'[i] = resp[i])

C14_OwnContext ==
  \A i \in Slots :
    /\ pc[i] = "run" => seen[i] = i
    /\ (pc[i] = "done" /\ disp[i].invoked /\ disp[i].ctx) =>
         /\ seen[i] = i
         /\ resp[i].body = <<Chunk("value", req[i].path, FuncOf(i), "")>>

\* the part of C14 that holds: a handler that has been called keeps the
\* context it was called with, whatever is attached after
C14_CopyKept ==
  [][\A i \in Slots : pc[i] \in {"run", "done"} => seen'[i] = seen[i]]_vars

(***************************************************************************)
(* Claims about the handlers New builds                                    *)
(***************************************************************************)
\* the fields of f that are a Processor or a Streaming
RoutableFields(f) == { i \in DOMAIN f : f[i].type \in {"Processor", "Streaming"} }

\* C15: when New succeeds, the handlers are the nodes of the routable fields
\* of the struct, one each and none for another field, in the order the
\* fields are declared.
C15_OnePerField ==
  (built /\ rest.ok) =>
    LET f == svc.fields
        rf == RoutableFields(f)
    IN /\ Len(rest.handlers) = Cardinality(rf)
       /\ \A i \in rf :
            LET k == Cardinality({ j \in rf : j <= i })
            IN /\ rest.handlers[k].name = f[i].name
               /\ rest.handlers[k] = newNode(rest.prefix, f[i]).node

\* C15 witness: New has succeeded on a struct with two routable fields or
\* more and a field that is not routable before the last of them
C15_Witness ==
  /\ built /\ rest.ok
  /\ Len(rest.handlers) >= 2
  /\ \E i, j \in DOMAIN svc.fields :
       /\ i < j
       /\ svc.fields[i].type = "plain"
       /\ j \in RoutableFields(svc.fields)

(***************************************************************************)
(* Claims about r.watch and its channels, checked under SpecExample        *)
(***************************************************************************)
\* C16: a channel that can be got from r.watch is open, and no push sends
\* on a channel its session has closed.
C16_NoSendOnClosed ==
  /\ \A k \in DOMAIN watch : ~chan[watch[k]].closed
  /\ \A i \in Slots : (pc[i] = "send" /\ ch[i] # 0) => ~chan[ch[i]].closed
  /\ \A n \in DOMAIN sends : sends[n].how # "panic"

\* C17: every session in its loop for k is the session whose channel is
\* stored under k, and a session's teardown removes no registration but
\* its own, also with two or more sessions for one identifier.
C17_Registration ==
  /\ [](\A i \in Slots :
         (IsWatch(i) /\ pc[i] \in {"recv", "write"}) =>
           (To(i) \in DOMAIN watch /\ watch[To(i)] = i))
  /\ [][\A k \in DOMAIN watch :
          k \notin DOMAIN watch' => (pc[watch[k]] = "delete" /\ pc'[watch[k]] = "done")]_vars

\* the two halves of C17 apart
C17_Reachable ==
  \A i \in Slots :
    (IsWatch(i) /\ pc[i] \in {"recv", "write"}) =>
      (To(i) \in DOMAIN watch /\ watch[To(i)] = i)
C17_OwnTeardown ==
  [][\A k \in DOMAIN watch :
       k \notin DOMAIN watch' => (pc[watch[k]] = "delete" /\ pc'[watch[k]] = "done")]_vars

\* C18: no two handlers are at accesses of the same map, r.post or r.watch,
\* of which one is a write, with nothing ordering the two; the runtime
\* never finds the maps accessed concurrently.
C18_NoConflictingAccess ==
  /\ \A i, j \in Slots : ~Race(i, j)
  /\ ~crashed

(***************************************************************************)
(* Claims about the request context, checked under Spec                    *)
(***************************************************************************)
\* the request in slot i found a node, its path matched, and newContent
\* returned an error for it
ContentError(i) ==
  /\ disp[i].node # 0
  /\ match(rest.handlers[disp[i].node], req[i]).err = ""
  /\ newContent(req[i]).e # ""

\* C19: when newContent returns an error for a matched route, the response
\* is a 400 carrying that error, and neither Unmarshal nor the handler is
\* run.
C19_ContentError400 ==
  (Served /\ ContentError(1)) =>
    /\ resp[1].code = StatusBadRequest
    /\ resp[1].body = <<Chunk("error", <<>>, newContent(req[1]).e, "")>>
    /\ ~disp[1].unmarshal
    /\ ~disp[1].invoked

====
